---- MODULE Spec2Model ----
(***************************************************************************)
(* Page element cache (services/tools_cache_manager.py), selector          *)
(* generation and element extraction (browser/locator.py) and the          *)
(* accessibility-tree functions (utils/a11y_tree.py) of the browsing       *)
(* agent.                                                                  *)
(*                                                                         *)
(* A page cache is a record of four selector-keyed maps.  The manager's     *)
(* mapping is a dict from the urls that have a record to their record.     *)
(* Python exceptions are kept as the "raised" flag of the call record      *)
(* `last`; the part of a method that ran before the raise has taken effect.*)
(***************************************************************************)
EXTENDS Integers, Sequences, FiniteSets, TLC

VARIABLES
    cache_mapping,  \* ElementsCacheManager._cache_mapping : Dict[url, PageCache]
    last,           \* the most recent call: operation, arguments, outcome
    nops,           \* number of calls made so far
    attributes,     \* _generate_selector: the attributes dict passed in
    element,        \* _generate_selector: tag the live locator resolves to now
    results,        \* _generate_selector: outcomes of the calls made so far
    tree,           \* accessibility tree handed to a tree function
    page,           \* live page handed to list_interactive_elements
    out,            \* outcome of the tree, page or tool function that ran
    current_page,   \* BrowserManager.current_page, as the tools read it
    heap,           \* the dict objects behind the cache maps, by identity
    held            \* references to cache maps that callers hold

vars == <<cache_mapping, last, nops, attributes, element, results,
          tree, page, out, current_page, heap, held>>

(***************************************************************************)
(* Bounds and value universes                                              *)
(***************************************************************************)
MaxOps == 3
MaxCalls == 2

None == "None"

URLS == {"https://a.example/", "https://b.example/"}

Elem(s, c) == [selector |-> s, contents |-> c]

ElA == Elem("#a", "x")
ElB == Elem("#b", "x")
ElC == Elem("#c", "x")
InteractiveElements == {ElA, ElB, ElC}

ElP == Elem("#p", "x")
ElP2 == Elem("#p", "y")
InformativeElements == {ElP, ElP2}

EmptyMap == [s \in {} |-> s]

\* Selector-keyed dicts over a universe of elements: Dict[str, Dict[str, Any]]
\* in which each element is stored under its own "selector".
MapsOver(E) ==
    UNION { {f \in [S -> E] : \A s \in S : f[s].selector = s} :
            S \in SUBSET {e.selector : e \in E} }

InteractiveMaps == MapsOver(InteractiveElements)
InformativeMaps == MapsOver(InformativeElements)

MapOf(E) == [s \in {e.selector : e \in E} |-> CHOOSE e \in E : e.selector = s]

\* dict.values() as a set
Values(m) == {m[k] : k \in DOMAIN m}

(***************************************************************************)
(* PageCache                                                               *)
(***************************************************************************)
\* The attributes the dataclass declares; reading any other attribute of a
\* PageCache raises AttributeError.
PageCacheFields ==
    {"interactive_cache", "informative_cache", "info_updates", "interactive_updates"}

PageCache ==
    [interactive_cache |-> EmptyMap,
     informative_cache |-> EmptyMap,
     info_updates |-> EmptyMap,
     interactive_updates |-> EmptyMap]

\* self._cache_mapping.get(page_url, None) is not None
HasRecord(m, u) == u \in DOMAIN m

\* self._cache_mapping.get(page_url, PageCache())
GetOrDefault(m, u) == IF HasRecord(m, u) THEN m[u] ELSE PageCache

\* Variant that starts the mapping afresh with the record of u alone.
EnsureRecord_Resets(m, u) ==
    [x \in {u} |-> IF x \in DOMAIN m THEN m[x] ELSE PageCache]

\* if self._cache_mapping.get(page_url, None) is None:
\*     self._cache_mapping[page_url] = PageCache()
EnsureRecord(m, u) ==
    [x \in DOMAIN m \cup {u} |-> IF x \in DOMAIN m THEN m[x] ELSE PageCache]

(***************************************************************************)
(* The call record                                                         *)
(***************************************************************************)
NoCall ==
    [op |-> "init", url |-> None, raised |-> FALSE, ret |-> "void",
     ret_map |-> EmptyMap, inter |-> EmptyMap, info |-> EmptyMap,
     created |-> FALSE, prev_observe |-> FALSE,
     prev_inter |-> EmptyMap, prev_info |-> EmptyMap]

Call(op, u) == [NoCall EXCEPT !.op = op, !.url = u]

Raises(op, u) == [Call(op, u) EXCEPT !.raised = TRUE, !.ret = "raise"]

Returns(op, u, kind, m) == [Call(op, u) EXCEPT !.ret = kind, !.ret_map = m]

Step == nops < MaxOps /\ nops' = nops + 1

\* no accessibility tree, no page, no extraction run
NoTree == [parent |-> <<>>, role |-> <<>>, type |-> <<>>, name |-> <<>>]

NoPage == [elems |-> <<>>, broken |-> {}]

NoOut == [done |-> FALSE]

\* no browser page, no dict object tracked by identity, no reference held
NoCurrentPage == [connected |-> FALSE]

NoHeap == <<>>

NoHeld == {}

ToolsIdle == UNCHANGED <<current_page, heap, held>>

ExtractIdle == UNCHANGED <<tree, page, out>> /\ ToolsIdle

SelectorIdle == UNCHANGED <<attributes, element, results>> /\ ExtractIdle

(***************************************************************************)
(* ElementsCacheManager                                                    *)
(***************************************************************************)
Init ==
    /\ cache_mapping = [u \in {} |-> PageCache]
    /\ last = NoCall
    /\ nops = 0
    /\ attributes = [id |-> None, name |-> None]
    /\ element = "detached"
    /\ results = <<>>
    /\ tree = NoTree
    /\ page = NoPage
    /\ out = NoOut
    /\ current_page = NoCurrentPage
    /\ heap = NoHeap
    /\ held = NoHeld

\* get_cache
GetCache(u) ==
    /\ Step
    /\ last' = IF HasRecord(cache_mapping, u)
               THEN Returns("get_cache", u, "dict", cache_mapping[u].interactive_cache)
               ELSE Returns("get_cache", u, "None", EmptyMap)
    /\ UNCHANGED cache_mapping
    /\ SelectorIdle

\* del_interactve_updates
DelInteractveUpdatesOn(m, u) ==
    IF HasRecord(m, u) THEN [m EXCEPT ![u].interactive_updates = EmptyMap] ELSE m

\* set_interactive_cache
SetInteractiveCache(u, interactive_cache) ==
    /\ Step
    /\ cache_mapping' =
          [DelInteractveUpdatesOn(EnsureRecord(cache_mapping, u), u)
              EXCEPT ![u].interactive_cache = interactive_cache]
    /\ last' = [Returns("set_interactive_cache", u, "void", EmptyMap)
                   EXCEPT !.inter = interactive_cache,
                          !.created = ~HasRecord(cache_mapping, u)]
    /\ SelectorIdle

\* set_informative_cache: del_info_updates runs between the creation of the
\* record and the assignment; when it raises, the assignment is not reached.
InfoUpdatesAttr == "informative_updates"

DelInfoUpdatesRaises == InfoUpdatesAttr \notin PageCacheFields

\* del_info_updates
DelInfoUpdatesOn(m, u) ==
    IF HasRecord(m, u) THEN [m EXCEPT ![u].info_updates = EmptyMap] ELSE m

SetInformativeCache(u, informative_cache) ==
    /\ Step
    /\ IF DelInfoUpdatesRaises
       THEN /\ cache_mapping' = EnsureRecord(cache_mapping, u)
            /\ last' = [Raises("set_informative_cache", u)
                           EXCEPT !.info = informative_cache,
                                  !.created = ~HasRecord(cache_mapping, u)]
       ELSE /\ cache_mapping' =
                  [DelInfoUpdatesOn(EnsureRecord(cache_mapping, u), u)
                      EXCEPT ![u].informative_cache = informative_cache]
            /\ last' = [Returns("set_informative_cache", u, "void", EmptyMap)
                           EXCEPT !.info = informative_cache,
                                  !.created = ~HasRecord(cache_mapping, u)]
    /\ SelectorIdle

\* Variant of clear_interactive_cache that clears both maps of the record.
ClearInteractiveCacheOn_Both(m, u) ==
    IF HasRecord(m, u)
    THEN [m EXCEPT ![u].interactive_cache = EmptyMap,
                   ![u].informative_cache = EmptyMap]
    ELSE m

\* clear_interactive_cache: clears the record's map in place, or the map of a
\* temporary PageCache that is then dropped.
ClearInteractiveCacheOn(m, u) ==
    IF HasRecord(m, u) THEN [m EXCEPT ![u].interactive_cache = EmptyMap] ELSE m

ClearInteractiveCache(u) ==
    /\ Step
    /\ cache_mapping' = ClearInteractiveCacheOn(cache_mapping, u)
    /\ last' = Returns("clear_interactive_cache", u, "void", EmptyMap)
    /\ SelectorIdle

\* clear_informative_cache
ClearInformativeCacheOn(m, u) ==
    IF HasRecord(m, u) THEN [m EXCEPT ![u].informative_cache = EmptyMap] ELSE m

ClearInformativeCache(u) ==
    /\ Step
    /\ cache_mapping' = ClearInformativeCacheOn(cache_mapping, u)
    /\ last' = Returns("clear_informative_cache", u, "void", EmptyMap)
    /\ SelectorIdle

\* PageCache.clear_cache, on a record
ClearCacheOf(pc) == [pc EXCEPT !.interactive_cache = EmptyMap]

\* PageCache.clear_cache called on the record the manager holds for u
ClearCache(u) ==
    /\ Step
    /\ HasRecord(cache_mapping, u)
    /\ cache_mapping' = [cache_mapping EXCEPT ![u] = ClearCacheOf(@)]
    /\ last' = Returns("clear_cache", u, "void", EmptyMap)
    /\ SelectorIdle

\* get_element
GetElement(u, element_selector) ==
    /\ Step
    /\ LET cache == GetOrDefault(cache_mapping, u).interactive_cache
       IN last' = IF element_selector \in DOMAIN cache
                  THEN Returns("get_element", u, "element",
                               [s \in {element_selector} |-> cache[s]])
                  ELSE Returns("get_element", u, "None", EmptyMap)
    /\ UNCHANGED cache_mapping
    /\ SelectorIdle

\* get_info_updates: .get(page_url) is None for a url without a record, and
\* reading an attribute of None raises AttributeError.
GetInfoUpdates(u) ==
    /\ Step
    /\ last' = IF HasRecord(cache_mapping, u)
               THEN Returns("get_info_updates", u, "dict", cache_mapping[u].info_updates)
               ELSE Raises("get_info_updates", u)
    /\ UNCHANGED cache_mapping
    /\ SelectorIdle

\* get_interactive_updates
GetInteractiveUpdates(u) ==
    /\ Step
    /\ last' = IF HasRecord(cache_mapping, u)
               THEN Returns("get_interactive_updates", u, "dict",
                            cache_mapping[u].interactive_updates)
               ELSE Raises("get_interactive_updates", u)
    /\ UNCHANGED cache_mapping
    /\ SelectorIdle

\* del_info_updates
DelInfoUpdates(u) ==
    /\ Step
    /\ IF DelInfoUpdatesRaises
       THEN /\ cache_mapping' = cache_mapping
            /\ last' = Raises("del_info_updates", u)
       ELSE /\ cache_mapping' = DelInfoUpdatesOn(cache_mapping, u)
            /\ last' = Returns("del_info_updates", u, "void", EmptyMap)
    /\ SelectorIdle

\* del_interactve_updates
DelInteractveUpdates(u) ==
    /\ Step
    /\ cache_mapping' = DelInteractveUpdatesOn(cache_mapping, u)
    /\ last' = Returns("del_interactve_updates", u, "void", EmptyMap)
    /\ SelectorIdle

\* del_page_updates: del_info_updates first, then del_interactve_updates
DelPageUpdates(u) ==
    /\ Step
    /\ IF DelInfoUpdatesRaises
       THEN /\ cache_mapping' = cache_mapping
            /\ last' = Raises("del_page_updates", u)
       ELSE /\ cache_mapping' =
                  DelInteractveUpdatesOn(DelInfoUpdatesOn(cache_mapping, u), u)
            /\ last' = Returns("del_page_updates", u, "void", EmptyMap)
    /\ SelectorIdle

(***************************************************************************)
(* track_dom_changes                                                       *)
(*                                                                         *)
(* TrackDomChanges is the method on the values lines 107-121 are written   *)
(* for: info_cache and inter_cache are two selector-keyed dicts (the shape *)
(* lines 11-16 declare) whose elements are compared by value and carry a   *)
(* "selector".  Three things stand between the shipped code and that       *)
(* reading, and none of them is assumed away silently:                     *)
(*   - list_informative_elements and list_interactive_elements are         *)
(*     coroutine functions (locator.py:56, :69) and lines 104-105 call     *)
(*     them without an await, so the first .values() of line 107 raises    *)
(*     AttributeError after the record of the url has been created.  That  *)
(*     outcome is the action TrackDomChangesUnawaited;                     *)
(*   - awaited, they return lists, and set() of dict values needs hashable *)
(*     elements;                                                           *)
(*   - the informative elements of locator.py:245-248 carry no "selector". *)
(* Properties of observe below are about the calls that return.            *)
(***************************************************************************)
\* Variant of the difference with the operands swapped.
Delta_Swapped(new_cache, old_cache) == Values(old_cache) \ Values(new_cache)

\* set(new.values()).difference(set(old.values()))
Delta(new_cache, old_cache) == Values(new_cache) \ Values(old_cache)

\* for element in delta: updates[element["selector"]] = element
PutAll(updates, delta) ==
    [s \in DOMAIN updates \cup {e.selector : e \in delta} |->
        IF \E e \in delta : e.selector = s
        THEN CHOOSE e \in delta : e.selector = s
        ELSE updates[s]]

\* Variant of the diff of one side without the test of len(delta).
DiffSide_AlwaysInstalls(old_cache, old_updates, new_cache) ==
    [cache |-> new_cache,
     updates |-> PutAll(old_updates, Delta(new_cache, old_cache))]

\* Variant of the diff of one side that rebuilds the bucket from the
\* difference on every call.
DiffSide_RebuildsBucket(old_cache, old_updates, new_cache) ==
    LET delta == Delta(new_cache, old_cache)
    IN [cache |-> IF delta # {} THEN new_cache ELSE old_cache,
        updates |-> PutAll(EmptyMap, delta)]

\* One side of lines 107-121: the side's map and bucket after the diff.
DiffSide(old_cache, old_updates, new_cache) ==
    LET delta == Delta(new_cache, old_cache)
    IN IF delta # {}
       THEN [cache |-> new_cache, updates |-> PutAll(old_updates, delta)]
       ELSE [cache |-> old_cache, updates |-> old_updates]

PrevObserve(u) == last.op = "track_dom_changes" /\ ~last.raised /\ last.url = u

\* Variant in which the second loop writes the interactive difference into
\* info_updates, the bucket of the first loop.
TrackDomChanges_SameBucket(u, info_cache, inter_cache) ==
    /\ Step
    /\ LET m == EnsureRecord(cache_mapping, u)
           info == DiffSide(m[u].informative_cache, m[u].info_updates, info_cache)
           inter == DiffSide(m[u].interactive_cache, m[u].interactive_updates,
                             inter_cache)
       IN cache_mapping' =
             [m EXCEPT ![u] = [informative_cache |-> info.cache,
                               info_updates |->
                                   PutAll(info.updates,
                                          Delta(inter_cache,
                                                m[u].interactive_cache)),
                               interactive_cache |-> inter.cache,
                               interactive_updates |-> m[u].interactive_updates]]
    /\ last' = [Returns("track_dom_changes", u, "void", EmptyMap)
                   EXCEPT !.inter = inter_cache,
                          !.info = info_cache,
                          !.created = ~HasRecord(cache_mapping, u),
                          !.prev_observe = PrevObserve(u),
                          !.prev_inter = IF PrevObserve(u) THEN last.inter ELSE EmptyMap,
                          !.prev_info = IF PrevObserve(u) THEN last.info ELSE EmptyMap]
    /\ SelectorIdle

TrackDomChanges(u, info_cache, inter_cache) ==
    /\ Step
    /\ LET m == EnsureRecord(cache_mapping, u)
           info == DiffSide(m[u].informative_cache, m[u].info_updates, info_cache)
           inter == DiffSide(m[u].interactive_cache, m[u].interactive_updates,
                             inter_cache)
       IN cache_mapping' =
             [m EXCEPT ![u] = [informative_cache |-> info.cache,
                               info_updates |-> info.updates,
                               interactive_cache |-> inter.cache,
                               interactive_updates |-> inter.updates]]
    /\ last' = [Returns("track_dom_changes", u, "void", EmptyMap)
                   EXCEPT !.inter = inter_cache,
                          !.info = info_cache,
                          !.created = ~HasRecord(cache_mapping, u),
                          !.prev_observe = PrevObserve(u),
                          !.prev_inter = IF PrevObserve(u) THEN last.inter ELSE EmptyMap,
                          !.prev_info = IF PrevObserve(u) THEN last.info ELSE EmptyMap]
    /\ SelectorIdle

TrackDomChangesUnawaited(u) ==
    /\ Step
    /\ cache_mapping' = EnsureRecord(cache_mapping, u)
    /\ last' = [Raises("track_dom_changes", u)
                   EXCEPT !.created = ~HasRecord(cache_mapping, u)]
    /\ SelectorIdle

Next ==
    \/ \E u \in URLS : GetCache(u)
    \/ \E u \in URLS, m \in InteractiveMaps : SetInteractiveCache(u, m)
    \/ \E u \in URLS, m \in InformativeMaps : SetInformativeCache(u, m)
    \/ \E u \in URLS : ClearInteractiveCache(u)
    \/ \E u \in URLS : ClearInformativeCache(u)
    \/ \E u \in URLS : ClearCache(u)
    \/ \E u \in URLS, s \in {e.selector : e \in InteractiveElements} : GetElement(u, s)
    \/ \E u \in URLS : GetInfoUpdates(u)
    \/ \E u \in URLS : GetInteractiveUpdates(u)
    \/ \E u \in URLS : DelInfoUpdates(u)
    \/ \E u \in URLS : DelInteractveUpdates(u)
    \/ \E u \in URLS : DelPageUpdates(u)
    \/ \E u \in URLS, i \in InformativeMaps, m \in InteractiveMaps :
          TrackDomChanges(u, i, m)
    \/ \E u \in URLS : TrackDomChangesUnawaited(u)

Spec == Init /\ [][Next]_vars

(***************************************************************************)
(* ElementLocator._generate_selector                                       *)
(*                                                                         *)
(* The attributes dict carries None or a string under "id" and "name".     *)
(* `element` is what the locator resolves to when it is evaluated: the tag *)
(* of the matched node, or "detached" when no node matches any more and    *)
(* element.evaluate raises.                                                *)
(***************************************************************************)
Ids == {None, "", "main", "nav"}
Names == {None, "", "q"}
Tags == {"input", "select"}
LiveStates == Tags \cup {"detached"}

\* Python truth value of attributes.get(key)
Truthy(v) == v # None /\ v # ""

Returned(v, tag) == [raised |-> FALSE, value |-> v, tag |-> tag]

Raised(tag) == [raised |-> TRUE, value |-> "", tag |-> tag]

\* Variant that tests "name" before "id".
GenerateSelector_NameFirst(el, attrs) ==
    IF Truthy(attrs.name)
    THEN IF el = "detached"
         THEN Raised(el)
         ELSE Returned(el \o "[name='" \o attrs.name \o "']", el)
    ELSE IF Truthy(attrs.id)
         THEN Returned("#" \o attrs.id, el)
         ELSE Returned("unknown", el)

GenerateSelector(el, attrs) ==
    IF Truthy(attrs.id)
    THEN Returned("#" \o attrs.id, el)
    ELSE IF Truthy(attrs.name)
         THEN IF el = "detached"
              THEN Raised(el)
              ELSE Returned(el \o "[name='" \o attrs.name \o "']", el)
         ELSE Returned("unknown", el)

CacheIdle == UNCHANGED <<cache_mapping, last, nops>> /\ ExtractIdle

InitSel ==
    /\ cache_mapping = [u \in {} |-> PageCache]
    /\ last = NoCall
    /\ nops = 0
    /\ attributes \in [id : Ids, name : Names]
    /\ element \in LiveStates
    /\ results = <<>>
    /\ tree = NoTree
    /\ page = NoPage
    /\ out = NoOut
    /\ current_page = NoCurrentPage
    /\ heap = NoHeap
    /\ held = NoHeld

\* one call of _generate_selector(element, attributes)
Resolve ==
    /\ Len(results) < MaxCalls
    /\ results' = Append(results, GenerateSelector(element, attributes))
    /\ UNCHANGED <<attributes, element>>
    /\ CacheIdle

\* the page changes between two calls: the locator now resolves differently
DomChange ==
    /\ \E t \in LiveStates \ {element} : element' = t
    /\ UNCHANGED <<attributes, results>>
    /\ CacheIdle

NextSel ==
    \/ Resolve
    \/ DomChange

SpecSel == InitSel /\ [][NextSel]_vars

(***************************************************************************)
(* Properties of the cache manager (specification Spec)                    *)
(***************************************************************************)
Observed == last.op = "track_dom_changes" /\ ~last.raised

\* the call was an observe that directly follows a completed observe of the
\* same url with the same two snapshots
ObservedAgain ==
    /\ Observed
    /\ last.prev_observe
    /\ last.prev_inter = last.inter
    /\ last.prev_info = last.info

Drained == last.op \in {"get_info_updates", "get_interactive_updates"} /\ ~last.raised

C6_SetReplacesSide ==
    [][LET u == last'.url
           old == GetOrDefault(cache_mapping, u)
           new == cache_mapping'[u]
       IN /\ last'.op = "set_interactive_cache" =>
                /\ ~last'.raised
                /\ u \in DOMAIN cache_mapping'
                /\ new.interactive_cache = last'.inter
                /\ new.interactive_updates = EmptyMap
                /\ new.informative_cache = old.informative_cache
                /\ new.info_updates = old.info_updates
          /\ last'.op = "set_informative_cache" =>
                /\ ~last'.raised
                /\ u \in DOMAIN cache_mapping'
                /\ new.informative_cache = last'.info
                /\ new.info_updates = EmptyMap
                /\ new.interactive_cache = old.interactive_cache
                /\ new.interactive_updates = old.interactive_updates]_vars

Cleared ==
    last.op \in {"clear_cache", "clear_interactive_cache", "clear_informative_cache"}

QueryOps ==
    {"get_cache", "get_element", "get_info_updates", "get_interactive_updates",
     "clear_interactive_cache", "clear_informative_cache",
     "del_info_updates", "del_interactve_updates", "del_page_updates"}

\* C8: for a url without a record every query of the manager returns an
\* empty or absent result, raises nothing and creates no record.
C8_MissIsNotAnError ==
    [][(last'.op \in QueryOps /\ last'.url \notin DOMAIN cache_mapping) =>
          /\ ~last'.raised
          /\ last'.ret \in {"None", "void", "dict"}
          /\ last'.ret_map = EmptyMap
          /\ cache_mapping' = cache_mapping]_vars

(***************************************************************************)
(* Properties of _generate_selector (specification SpecSel)                *)
(***************************************************************************)
NonEmpty(v) == v \notin {None, ""}

\* C9: priority, first match wins: with a non-empty id the result is "#" and
\* the id, also when a name is present; otherwise with a non-empty name it is
\* the tag followed by [name='...']; otherwise it is "unknown".
C9_Priority ==
    \A i \in DOMAIN results :
        LET r == results[i]
        IN IF NonEmpty(attributes.id)
           THEN ~r.raised /\ r.value = "#" \o attributes.id
           ELSE IF NonEmpty(attributes.name)
                THEN ~r.raised =>
                        r.value = r.tag \o "[name='" \o attributes.name \o "']"
                ELSE ~r.raised /\ r.value = "unknown"

C9_Witness ==
    /\ Len(results) >= 1
    /\ NonEmpty(attributes.id)
    /\ NonEmpty(attributes.name)
    /\ results[1].value = "#" \o attributes.id

\* C10: for a fixed attribute set any two calls that return, return the same
\* string, whatever the live element does between them.
C10_Stable ==
    \A i, j \in DOMAIN results :
        (~results[i].raised /\ ~results[j].raised) =>
            results[i].value = results[j].value

\* C11: no call raises, for any attribute set and whatever the state of the
\* live element; without a usable identifying attribute the result is
\* "unknown".
C11_NeverRaises ==
    \A i \in DOMAIN results :
        /\ ~results[i].raised
        /\ (~NonEmpty(attributes.id) /\ ~NonEmpty(attributes.name)) =>
              results[i].value = "unknown"

(***************************************************************************)
(* Accessibility trees (utils/a11y_tree.py, browser/locator.py)            *)
(*                                                                         *)
(* A tree is a sequence of nodes numbered in document order: node 1 is the *)
(* root, parent[i] is the node whose "children" list holds node i (0 for   *)
(* the root), and the children of a node are listed by increasing number.  *)
(* 0 stands for Python's None where a node is expected.                    *)
(***************************************************************************)
MaxNodes == 5
MaxInfoNodes == 4
MaxElems == 2

RECURSIVE AncOrSelf(_, _)
AncOrSelf(p, i) == IF i = 0 THEN {} ELSE {i} \cup AncOrSelf(p, p[i])

\* parent vectors of the ordered trees with n nodes, numbered in preorder
Shapes(n) ==
    {p \in [1..n -> 0..(n - 1)] :
        /\ p[1] = 0
        /\ \A i \in 2..n : p[i] \in 1..(i - 1)
        /\ \A i \in 3..n : p[i] \in AncOrSelf(p, i - 1)}

\* the tree of shape p whose node i has the role, type and name k[i]
TreeOf(p, k) ==
    [parent |-> p,
     role |-> [i \in DOMAIN p |-> k[i].role],
     type |-> [i \in DOMAIN p |-> k[i].type],
     name |-> [i \in DOMAIN p |-> k[i].name]]

\* t is a tree of at most max nodes with node dicts drawn from Kinds
IsTreeWithin(t, Kinds, max) ==
    \E n \in 1..max : \E p \in Shapes(n) : \E k \in [1..n -> Kinds] :
        t = TreeOf(p, k)

IsTreeOver(t, Kinds) == IsTreeWithin(t, Kinds, MaxNodes)

NodesOf(t) == 1..Len(t.parent)

\* node.get("children", []) as a list of nodes
Children(t, n) ==
    SelectSeq([i \in 1..Len(t.parent) |-> i], LAMBDA k : t.parent[k] = n)

Ancestors(t, n) == AncOrSelf(t.parent, t.parent[n])

Descendants(t, n) == {k \in NodesOf(t) : n \in Ancestors(t, k)}

\* a == b on two node dicts: same role, type and name, equal children lists
RECURSIVE NodeEq(_, _, _)
NodeEq(t, a, b) ==
    /\ t.role[a] = t.role[b]
    /\ t.type[a] = t.type[b]
    /\ t.name[a] = t.name[b]
    /\ Len(Children(t, a)) = Len(Children(t, b))
    /\ \A i \in 1..Len(Children(t, a)) :
          NodeEq(t, Children(t, a)[i], Children(t, b)[i])

(***************************************************************************)
(* find_working_node                                                       *)
(***************************************************************************)
\* the names that contain the label "Search Results"
LabelledNames == {"Search Results", "Search Results for tla"}

WorkingKinds ==
    {[role |-> "main", type |-> None, name |-> ""],
     [role |-> "header", type |-> None, name |-> "Search Results for tla"],
     [role |-> "header", type |-> None, name |-> "News"],
     [role |-> "generic", type |-> None, name |-> ""]}

\* "Search Results" in node.get("name", "")
ContainsLabel(name) == name \in LabelledNames

TraverseInfo ==
    [main_node |-> 0, target_header |-> 0, header_parent |-> 0,
     main_is_ancestor_of_header |-> FALSE, break_recursion |-> FALSE]

\* traverse_info["main_node"] in path
InPath(t, m, path) ==
    m # 0 /\ \E i \in DOMAIN path : NodeEq(t, path[i], m)

RECURSIVE Traverse(_, _, _, _, _)
RECURSIVE TraverseChildren(_, _, _, _, _)
Traverse(t, node, path, parent, ti) ==
    IF ti.break_recursion THEN ti
    ELSE
      LET a == IF t.role[node] = "main"
               THEN [ti EXCEPT !.main_node = node,
                               !.break_recursion = (ti.target_header # 0)]
               ELSE ti
      IN IF a.break_recursion THEN a
         ELSE
           LET found == InPath(t, a.main_node, path)
               b == IF t.role[node] = "header" /\ ContainsLabel(t.name[node])
                    THEN [a EXCEPT !.target_header = node,
                                   !.header_parent = parent,
                                   !.main_is_ancestor_of_header = found,
                                   !.break_recursion = found]
                    ELSE a
           IN IF b.break_recursion THEN b
              ELSE TraverseChildren(t, Children(t, node),
                                    Append(path, node), node, b)

\* for child in children: traverse(child, path + [node], node)
TraverseChildren(t, children, path, parent, ti) ==
    IF children = <<>> THEN ti
    ELSE TraverseChildren(t, Tail(children), path, parent,
                          Traverse(t, Head(children), path, parent, ti))

\* Variant that answers the header's parent wherever the header was found.
FindResult_HeaderParent(ti) ==
    IF ti.target_header = 0 THEN ti.main_node ELSE ti.header_parent

\* the value returned once the traversal is over
FindResult(ti) ==
    IF ti.target_header = 0 THEN ti.main_node
    ELSE IF ~ti.main_is_ancestor_of_header THEN ti.main_node
         ELSE ti.header_parent

FindWorkingNodeOf(t) == FindResult(Traverse(t, 1, <<>>, 0, TraverseInfo))

InitWorking ==
    /\ cache_mapping = [u \in {} |-> PageCache]
    /\ last = NoCall
    /\ nops = 0
    /\ attributes = [id |-> None, name |-> None]
    /\ element = "detached"
    /\ results = <<>>
    /\ IsTreeOver(tree, WorkingKinds)
    /\ page = NoPage
    /\ out = NoOut
    /\ current_page = NoCurrentPage
    /\ heap = NoHeap
    /\ held = NoHeld

\* find_working_node(tree)
FindWorkingNode ==
    /\ ~out.done
    /\ out' = [done |-> TRUE, node |-> FindWorkingNodeOf(tree)]
    /\ UNCHANGED <<tree, page, attributes, element, results,
                   cache_mapping, last, nops>>
    /\ ToolsIdle

NextWorking == FindWorkingNode

SpecWorking == InitWorking /\ [][NextWorking]_vars

(***************************************************************************)
(* Properties of find_working_node (specification SpecWorking)             *)
(***************************************************************************)
MainNodes(t) == {n \in NodesOf(t) : t.role[n] = "main"}

MatchingHeaders(t) ==
    {n \in NodesOf(t) : t.role[n] = "header" /\ ContainsLabel(t.name[n])}

\* first in document order
First(S) == CHOOSE n \in S : \A k \in S : n <= k

\* what the three rules ask for when m is the main node (0: there is none)
WorkingNodeFor(t, m) ==
    IF MatchingHeaders(t) = {} THEN m
    ELSE IF m \in Ancestors(t, First(MatchingHeaders(t)))
         THEN t.parent[First(MatchingHeaders(t))]
         ELSE m

BlockKinds ==
    {[role |-> "link", type |-> None, name |-> "more"],
     [role |-> "generic", type |-> "link", name |-> "title"],
     [role |-> "text", type |-> None, name |-> "body"],
     [role |-> "generic", type |-> None, name |-> ""]}

\* node.get("role") == "link" or node.get("type") == "link"
IsLink(t, n) == t.role[n] = "link" \/ t.type[n] = "link"

\* all_links after prepare_tree(working_node)
AllLinks(t) ==
    SelectSeq([i \in 1..Len(t.parent) |-> i], LAMBDA n : IsLink(t, n))

\* the methods of the object seen_block_ids is bound to
SetMethods == {"add", "clear", "discard", "pop", "remove", "update"}

\* seen_block_ids.append(id(current)) is an AttributeError
SeenAppendRaises == "append" \notin SetMethods

\* the while loop: the node at which the climb from `current` stops
RECURSIVE Climb(_, _)
Climb(t, current) ==
    LET parent == t.parent[current]
    IN IF parent = 0 \/ NodeEq(t, current, 1) THEN current
       ELSE IF \E i \in DOMAIN Children(t, parent) :
                  /\ Children(t, parent)[i] # current
                  /\ IsLink(t, Children(t, parent)[i])
            THEN current
            ELSE IF NodeEq(t, parent, 1) THEN current
                 ELSE Climb(t, parent)

\* for link in all_links: climb, append the block, record its id
RECURSIVE ClimbAll(_, _, _)
ClimbAll(t, links, blocks) ==
    IF links = <<>> THEN [raised |-> FALSE, blocks |-> blocks]
    ELSE LET b == Append(blocks, Climb(t, Head(links)))
         IN IF SeenAppendRaises THEN [raised |-> TRUE, blocks |-> b]
            ELSE ClimbAll(t, Tail(links), b)

InitBlocks ==
    /\ cache_mapping = [u \in {} |-> PageCache]
    /\ last = NoCall
    /\ nops = 0
    /\ attributes = [id |-> None, name |-> None]
    /\ element = "detached"
    /\ results = <<>>
    /\ IsTreeOver(tree, BlockKinds)
    /\ page = NoPage
    /\ out = NoOut
    /\ current_page = NoCurrentPage
    /\ heap = NoHeap
    /\ held = NoHeld

\* extract_information_blocks(working_node); out.blocks is the local list,
\* which is the return value when the call returns
ExtractInformationBlocks ==
    /\ ~out.done
    /\ LET r == ClimbAll(tree, AllLinks(tree), <<>>)
       IN out' = [done |-> TRUE, raised |-> r.raised, blocks |-> r.blocks]
    /\ UNCHANGED <<tree, page, attributes, element, results,
                   cache_mapping, last, nops>>
    /\ ToolsIdle

NextBlocks == ExtractInformationBlocks

SpecBlocks == InitBlocks /\ [][NextBlocks]_vars

(***************************************************************************)
(* Properties of extract_information_blocks (specification SpecBlocks)     *)
(***************************************************************************)
Range(q) == {q[i] : i \in DOMAIN q}

LinksBelow(t, n) == {k \in Descendants(t, n) : IsLink(t, k)}

IsLeaf(t, n) == Children(t, n) = <<>>

\* a container with text and exactly one link, which is a leaf
IsResultItem(t, c) ==
    /\ ~IsLink(t, c)
    /\ Cardinality(LinksBelow(t, c)) = 1
    /\ \A k \in LinksBelow(t, c) : IsLeaf(t, k)
    /\ \E k \in Descendants(t, c) : t.role[k] = "text"

\* a working root whose children are sibling result items
IsListing(t) ==
    /\ ~IsLink(t, 1)
    /\ Children(t, 1) # <<>>
    /\ \A c \in Range(Children(t, 1)) : IsResultItem(t, c)

\* C13: on a working root with N sibling containers, each holding text and
\* exactly one link leaf, the call returns normally and its list holds
\* exactly the N containers, each once.
C13_ListingBlocks ==
    (out.done /\ IsListing(tree)) =>
        /\ ~out.raised
        /\ Len(out.blocks) = Len(Children(tree, 1))
        /\ Range(out.blocks) = Range(Children(tree, 1))

\* two different links whose climbs stop at the same node
SharedBlock(t) ==
    \E a, b \in Range(AllLinks(t)) : a # b /\ Climb(t, a) = Climb(t, b)

NoDuplicates(q) == \A i, j \in DOMAIN q : q[i] = q[j] => i = j

\* C14: when several links climb to the same block, the call returns a list
\* that holds no node twice.
C14_BlockOnce ==
    (out.done /\ SharedBlock(tree)) =>
        (~out.raised /\ NoDuplicates(out.blocks))

SubtreeOf(t, n) == {n} \cup Descendants(t, n)

\* a working root whose children are items that hold links, one of them
\* more than one link
IsMultiLinkListing(t) ==
    /\ ~IsLink(t, 1)
    /\ Children(t, 1) # <<>>
    /\ \A c \in Range(Children(t, 1)) : ~IsLink(t, c) /\ LinksBelow(t, c) # {}
    /\ \E c \in Range(Children(t, 1)) : Cardinality(LinksBelow(t, c)) > 1

\* C15: an item that holds more than one link, as siblings or nested,
\* yields a single block: the list returned has one block per item, a node
\* of that item above all of the item's links.
C15_OneBlockPerItem ==
    (out.done /\ IsMultiLinkListing(tree)) =>
        /\ ~out.raised
        /\ Len(out.blocks) = Len(Children(tree, 1))
        /\ \A c \in Range(Children(tree, 1)) :
              \E i \in DOMAIN out.blocks :
                 /\ out.blocks[i] \in SubtreeOf(tree, c)
                 /\ LinksBelow(tree, c) \subseteq
                        SubtreeOf(tree, out.blocks[i]) \ {out.blocks[i]}

(***************************************************************************)
(* ElementLocator._extract_informative_nodes                               *)
(*                                                                         *)
(* An element of the returned list is the dict {role, contents}; the model *)
(* adds to it the node it was made for.                                    *)
(***************************************************************************)
InformativeRoles ==
    {"article", "section", "paragraph", "listitem", "blockquote",
     "heading", "text", "list", "figure", "img", "link",
     "code", "pre", "table", "row", "cell",
     "definition", "term", "note", "complementary",
     "navigation", "region", "contentinfo", "banner", "text leaf"}

ContainerRoles == {"article", "section", "paragraph", "listitem", "blockquote"}

InfoKinds ==
    {[role |-> "paragraph", type |-> None, name |-> ""],
     [role |-> "paragraph", type |-> None, name |-> " p "],
     [role |-> "text", type |-> None, name |-> "a"],
     [role |-> "text", type |-> None, name |-> " b"],
     [role |-> "text", type |-> None, name |-> ""],
     [role |-> "heading", type |-> None, name |-> "h"],
     [role |-> "generic", type |-> None, name |-> ""]}

\* 'text' in role, for the roles of the vocabulary
ContainsText(role) == role \in {"text", "text leaf", "textbox"}

\* str.strip() on the names in use
Strip(name) ==
    CASE name = " p " -> "p"
      [] name = " b" -> "b"
      [] OTHER -> name

\* '\n'.join(q)
RECURSIVE JoinLines(_)
JoinLines(q) ==
    IF q = <<>> THEN ""
    ELSE IF Len(q) = 1 THEN q[1]
         ELSE q[1] \o "\n" \o JoinLines(Tail(q))

\* collect_text(n, child_texts).  The list passed in is appended to in
\* place, so the call has two results: the list it returns (ret) and what
\* the list object it was handed holds afterwards (arg).  The local name is
\* rebound to a new list at the first child, so only the own append and the
\* first child's call reach the object handed in.
RECURSIVE CollectText(_, _, _)
RECURSIVE CollectLoop(_, _, _, _, _)
CollectText(t, n, child_texts) ==
    LET own == IF ContainsText(t.role[n]) /\ t.name[n] # ""
               THEN Append(child_texts, t.name[n])
               ELSE child_texts
    IN CollectLoop(t, Children(t, n), own, TRUE, own)

\* for child in n.get('children', []):
\*     child_texts = collect_text(child, child_texts) + child_texts
CollectLoop(t, children, child_texts, aliased, arg) ==
    IF children = <<>> THEN [ret |-> child_texts, arg |-> arg]
    ELSE LET r == CollectText(t, Head(children), child_texts)
         IN CollectLoop(t, Tail(children), r.ret \o r.arg, FALSE,
                        IF aliased THEN r.arg ELSE arg)

\* the content of a node with an informative role
ContentOf(t, n) ==
    LET name == Strip(t.name[n])
        child_texts == CollectText(t, n, <<>>).ret
    IN IF t.role[n] \in ContainerRoles /\ child_texts # <<>>
       THEN JoinLines(child_texts)
       ELSE name

\* informative_elements after the node's own test: one element or none
OwnElement(t, n) ==
    IF t.role[n] \in InformativeRoles /\ ContentOf(t, n) # ""
    THEN <<[role |-> t.role[n], contents |-> ContentOf(t, n), node |-> n]>>
    ELSE <<>>

\* Variant that puts the node's own element before its children's.
Combine_OwnFirst(children_info, own) == own \o children_info

\* informative_elements = children_info + informative_elements
Combine(children_info, own) == children_info \o own

RECURSIVE ExtractInformativeNodes(_, _)
RECURSIVE ChildrenInfo(_, _, _)
ExtractInformativeNodes(t, n) ==
    Combine(ChildrenInfo(t, Children(t, n), <<>>), OwnElement(t, n))

\* for child in children: children_info = child_info + children_info
ChildrenInfo(t, children, children_info) ==
    IF children = <<>> THEN children_info
    ELSE ChildrenInfo(t, Tail(children),
                      ExtractInformativeNodes(t, Head(children))
                          \o children_info)

InitInfo ==
    /\ cache_mapping = [u \in {} |-> PageCache]
    /\ last = NoCall
    /\ nops = 0
    /\ attributes = [id |-> None, name |-> None]
    /\ element = "detached"
    /\ results = <<>>
    /\ IsTreeWithin(tree, InfoKinds, MaxInfoNodes)
    /\ page = NoPage
    /\ out = NoOut
    /\ current_page = NoCurrentPage
    /\ heap = NoHeap
    /\ held = NoHeld

\* _extract_informative_nodes(accessibility_tree)
ExtractInformative ==
    /\ ~out.done
    /\ out' = [done |-> TRUE, list |-> ExtractInformativeNodes(tree, 1)]
    /\ UNCHANGED <<tree, page, attributes, element, results,
                   cache_mapping, last, nops>>
    /\ ToolsIdle

NextInfo == ExtractInformative

SpecInfo == InitInfo /\ [][NextInfo]_vars

(***************************************************************************)
(* Properties of _extract_informative_nodes (specification SpecInfo)       *)
(***************************************************************************)
\* C16: in the returned list every element made for a descendant node comes
\* before the element made for each of its ancestors.
C16_DescendantsFirst ==
    out.done =>
        \A i, j \in DOMAIN out.list :
            out.list[i].node \in Descendants(tree, out.list[j].node) => i < j

\* a list of three elements or more, one made for a node two levels below
\* the node of another
C16_Witness ==
    /\ out.done
    /\ Len(out.list) >= 3
    /\ \E i, j \in DOMAIN out.list :
          /\ out.list[i].node \in Descendants(tree, out.list[j].node)
          /\ tree.parent[out.list[i].node] # out.list[j].node

\* the plain-text leaves below n that have a name
TextLeaves(t, n) ==
    {k \in Descendants(t, n) :
        t.role[k] = "text" /\ IsLeaf(t, k) /\ t.name[k] # ""}

\* the joined names of the leaves of S, each once, in some order
LeafTexts(t, S) ==
    {JoinLines([i \in DOMAIN q |-> t.name[q[i]]]) :
        q \in {r \in [1..Cardinality(S) -> S] : Range(r) = S}}

\* C17: the contents of the element of a container node (article, section,
\* paragraph, listitem, blockquote) are the joined names of its descendant
\* plain-text leaves, each leaf once, when there is such a leaf, and the
\* node's own name otherwise.
C17_ContainerContent ==
    out.done =>
        \A i \in DOMAIN out.list :
            tree.role[out.list[i].node] \in ContainerRoles =>
                IF TextLeaves(tree, out.list[i].node) # {}
                THEN out.list[i].contents
                         \in LeafTexts(tree, TextLeaves(tree, out.list[i].node))
                ELSE out.list[i].contents = Strip(tree.name[out.list[i].node])

(***************************************************************************)
(* ElementLocator.list_interactive_elements                                *)
(*                                                                         *)
(* A page is the list of its DOM elements in document order, and the set   *)
(* of selector strategies whose page.locator(selector).all() raises.  An   *)
(* element gives what each read of it yields: its tag, its attributes      *)
(* (None where the script's `|| null` yields null), its text (inner text,  *)
(* or input value for input and textarea; TextRaises when the read         *)
(* raises), whether it is visible, what count() says, and whether one of   *)
(* the awaits on it raises after the visibility test.                      *)
(***************************************************************************)
Strategies == <<"input", "button", "aria_button">>

TextRaises == "<raises>"

\* an inner text of more than 200 characters, and its first 197 + "..."
LongText == "lorem ipsum <250 characters>"
LongTextCut == "lorem ipsum <197 characters>..."

Button ==
    [tag |-> "button", type |-> "submit", role |-> None, id |-> None,
     name |-> None, placeholder |-> None, aria_label |-> None,
     href |-> None, title |-> None, text |-> "Go", parent_label |-> None,
     visible |-> TRUE, count |-> 1, enabled |-> TRUE, fails |-> FALSE]

PageElements ==
    {[Button EXCEPT !.id = "go", !.role = "button"],
     [Button EXCEPT !.text = "Ok"],
     [Button EXCEPT !.tag = "div", !.type = None, !.role = "button",
                    !.text = LongText, !.title = "Menu"],
     [Button EXCEPT !.id = "late", !.fails = TRUE],
     [Button EXCEPT !.id = "gone", !.visible = FALSE, !.count = 0],
     [Button EXCEPT !.tag = "input", !.type = "text", !.name = "q",
                    !.text = "", !.parent_label = "Search",
                    !.placeholder = "Search"],
     [Button EXCEPT !.tag = "input", !.type = "checkbox", !.id = "agree",
                    !.text = "on", !.visible = FALSE, !.enabled = FALSE,
                    !.parent_label = "I agree"],
     [Button EXCEPT !.tag = "input", !.type = "hidden", !.name = "token",
                    !.text = "abc", !.visible = FALSE],
     [Button EXCEPT !.role = "button", !.text = TextRaises,
                    !.aria_label = " "]}

\* the element is in page.locator(_interactive_selectors[strategy]).all()
Matches(strategy, el) ==
    CASE strategy = "input" -> el.tag = "input" /\ el.type # "hidden"
      [] strategy = "button" -> el.tag = "button"
      [] strategy = "aria_button" -> el.role = "button"

\* positions of the page's elements that the strategy's locator yields
Located(p, strategy) ==
    SelectSeq([i \in DOMAIN p.elems |-> i],
              LAMBDA i : Matches(strategy, p.elems[i]))

PyBool(b) == IF b THEN "True" ELSE "False"

\* contents after lines 113-122
ReadContents(el) ==
    IF el.text = TextRaises THEN ""
    ELSE IF el.tag \in {"input", "textarea"} THEN el.text
         ELSE IF el.text = LongText THEN LongTextCut ELSE el.text

\* label after lines 140-155: with an id, awaiting page.locator(...) raises
\* inside the try and the label stays None
ReadLabel(el) ==
    IF Truthy(el.id) THEN None
    ELSE IF el.tag \in {"input", "textarea", "select"} /\ Truthy(el.parent_label)
         THEN el.parent_label
         ELSE None

\* element_info of lines 159-173
ElementInfo(el, selector_str) ==
    [id |-> el.id,
     tag_name |-> el.tag,
     contents |-> Strip(ReadContents(el)),
     label |-> IF Truthy(ReadLabel(el)) THEN Strip(ReadLabel(el)) ELSE None,
     placeholder |-> el.placeholder,
     aria_label |-> el.aria_label,
     role |-> el.role,
     selector |-> selector_str,
     is_enabled |-> IF el.tag \in {"input", "button", "select", "textarea"}
                    THEN PyBool(el.enabled) ELSE PyBool(TRUE),
     name |-> el.name,
     href |-> el.href,
     title |-> el.title,
     input_type |-> IF el.tag = "input" THEN el.type ELSE None]

\* {k: v for k, v in element_info.items() if v is not None}
DropNone(info) ==
    [k \in {key \in DOMAIN info : info[key] # None} |-> info[k]]

\* the body of the inner try for one element
ProcessElement(el) ==
    IF ~el.visible /\ el.count = 0 THEN [kind |-> "skipped"]
    ELSE IF el.fails \/ GenerateSelector(el.tag, el).raised
         THEN [kind |-> "raised"]
         ELSE [kind |-> "appended",
               info |-> DropNone(ElementInfo(
                            el, GenerateSelector(el.tag, el).value))]

\* Variant in which an element's error ends the strategy's element loop.
RestAfterError_Abandon(rest) == <<>>

\* except ...: continue - the elements the loop still visits after an error
RestAfterError(rest) == rest

\* for element in elements, with acc = [list, nodes] built so far
RECURSIVE ProcessElements(_, _, _, _)
ProcessElements(p, strategy, located, acc) ==
    IF located = <<>> THEN acc
    ELSE LET r == ProcessElement(p.elems[Head(located)])
         IN IF r.kind = "raised"
            THEN ProcessElements(p, strategy,
                                 RestAfterError(Tail(located)), acc)
            ELSE IF r.kind = "skipped"
                 THEN ProcessElements(p, strategy, Tail(located), acc)
                 ELSE ProcessElements(p, strategy, Tail(located),
                          [list |-> Append(acc.list, r.info),
                           nodes |-> Append(acc.nodes,
                                            <<strategy, Head(located)>>)])

\* for _, selector in self._interactive_selectors.items()
RECURSIVE ProcessStrategies(_, _, _)
ProcessStrategies(p, strategies, acc) ==
    IF strategies = <<>> THEN acc
    ELSE IF Head(strategies) \in p.broken
         THEN ProcessStrategies(p, Tail(strategies), acc)
         ELSE ProcessStrategies(p, Tail(strategies),
                  ProcessElements(p, Head(strategies),
                                  Located(p, Head(strategies)), acc))

InitInter ==
    /\ cache_mapping = [u \in {} |-> PageCache]
    /\ last = NoCall
    /\ nops = 0
    /\ attributes = [id |-> None, name |-> None]
    /\ element = "detached"
    /\ results = <<>>
    /\ tree = NoTree
    /\ \E n \in 0..MaxElems : \E es \in [1..n -> PageElements] :
          \E b \in {{}, {"button"}} : page = [elems |-> es, broken |-> b]
    /\ out = NoOut
    /\ current_page = NoCurrentPage
    /\ heap = NoHeap
    /\ held = NoHeld

\* list_interactive_elements(page); out.nodes names, for each entry of the
\* list, the strategy and the page element it was made for
ListInteractiveElements ==
    /\ ~out.done
    /\ LET r == ProcessStrategies(page, Strategies,
                                  [list |-> <<>>, nodes |-> <<>>])
       IN out' = [done |-> TRUE, list |-> r.list, nodes |-> r.nodes]
    /\ UNCHANGED <<tree, page, attributes, element, results,
                   cache_mapping, last, nops>>
    /\ ToolsIdle

NextInter == ListInteractiveElements

SpecInter == InitInter /\ [][NextInter]_vars

(***************************************************************************)
(* Properties of list_interactive_elements (specification SpecInter)       *)
(***************************************************************************)
\* C18: the returned list holds no two entries with the same selector, also
\* when several strategies match one element or several elements resolve
\* to "unknown".
C18_UniqueSelectors ==
    out.done =>
        \A i, j \in DOMAIN out.list :
            out.list[i].selector = out.list[j].selector => i = j

\* the element can be read to the end
Processable(el) == ~(~el.visible /\ el.count = 0) /\ ~el.fails

\* C19: when reading an element fails, the call still returns, and its list
\* holds an entry for exactly the elements that can be read, for each
\* strategy that locates them.
C19_LocalRecovery ==
    out.done =>
        \A i \in 1..Len(Strategies) : \A e \in DOMAIN page.elems :
            (/\ Strategies[i] \notin page.broken
             /\ Matches(Strategies[i], page.elems[e])
             /\ Processable(page.elems[e]))
            <=> (\E k \in DOMAIN out.nodes :
                    out.nodes[k] = <<Strategies[i], e>>)

\* an element whose read fails comes before a readable element of the same
\* strategy, and the list has the entry of the second
C19_Witness ==
    /\ out.done
    /\ \E e, f \in DOMAIN page.elems :
          /\ e < f
          /\ page.elems[e].fails
          /\ ~(~page.elems[e].visible /\ page.elems[e].count = 0)
          /\ Matches("button", page.elems[e])
          /\ Matches("button", page.elems[f])
          /\ \E k \in DOMAIN out.nodes : out.nodes[k] = <<"button", f>>

\* C20: no entry of the returned list carries a field that is None or empty;
\* an element without text has no "contents" field.
C20_OmitIfAbsent ==
    out.done =>
        \A i \in DOMAIN out.list : \A k \in DOMAIN out.list[i] :
            out.list[i][k] # None /\ out.list[i][k] # ""

(***************************************************************************)
(* Further properties of the cache manager (specification Spec)            *)
(***************************************************************************)
\* the call that has just run returned the entry e of u's bucket `bucket`
Delivers(call, u, bucket, e) ==
    /\ call.op = (IF bucket = "info_updates" THEN "get_info_updates"
                  ELSE "get_interactive_updates")
    /\ call.url = u
    /\ ~call.raised
    /\ e.selector \in DOMAIN call.ret_map
    /\ call.ret_map[e.selector] = e

\* the entry e is in u's bucket in the mapping m
Pending(m, u, bucket, e) ==
    /\ u \in DOMAIN m
    /\ e.selector \in DOMAIN m[u][bucket]
    /\ m[u][bucket][e.selector] = e

RecordBefore(u) == EnsureRecord(cache_mapping, u)[u]

BucketInBaseline(bucket, baseline) ==
    \A sel \in DOMAIN bucket :
        sel \in DOMAIN baseline /\ baseline[sel] = bucket[sel]

Covers(t, b, link) ==
    /\ b \in {link} \cup Ancestors(t, link)
    /\ b = 1 => link = 1

\* C30: for a working root that holds links the call returns, and every
\* link is covered by at least one block of the returned list: the link
\* itself or an ancestor of it inside the working root, the working root
\* only for a link that is the working root.
C30_EveryLinkCovered ==
    (out.done /\ AllLinks(tree) # <<>>) =>
        /\ ~out.raised
        /\ \A link \in Range(AllLinks(tree)) :
              \E i \in DOMAIN out.blocks : Covers(tree, out.blocks[i], link)

(***************************************************************************)
(* ClickElementTool._run and InputTextTool._run                            *)
(*                                                                         *)
(* current_page is BrowserManager.current_page: not connected (None) or a  *)
(* page with its url and the set of css selectors that match at least one  *)
(* element of the live page.  get_elements_cache() is the accessor of the  *)
(* process-wide cache manager.  What the browser does with a present       *)
(* element (visible or not, a popup, a timeout, another error) is an       *)
(* input of the call.  out.page is the page the call started on.           *)
(***************************************************************************)
Selectors == {e.selector : e \in InteractiveElements}

\* element_selector arguments: selectors of the universe and one that no
\* element has
SelectorArgs == Selectors \cup {"#z"}

Texts == {"", "hello"}

\* a page object
PageOf(url, live) == [connected |-> TRUE, url |-> url, live |-> live]

\* get_elements_cache(): the single ElementsCacheManager of the process
GetElementsCache == cache_mapping

\* cache is None or element_selector not in cache.keys()
NotInCache(m, url, element_selector) ==
    \/ ~HasRecord(m, url)
    \/ element_selector \notin DOMAIN m[url].interactive_cache

\* Variant that takes the page's element for present whatever it matches.
FirstCount_Attached(p, selector) == 1

\* page.locator(selector).first.count()
FirstCount(p, selector) == IF selector \in p.live THEN 1 ELSE 0

\* what the calls on the located element can do: only an element that is
\* on the page can be clicked or typed into
ClickOutcomes(p, selector) ==
    IF selector \in p.live THEN {"popup", "clicked", "timeout", "error"}
    ELSE {"timeout", "error"}

\* "click_error": a call up to element.click() raises; "type_error": fill or
\* type raises after the click
TypeOutcomes(p, selector) ==
    IF selector \in p.live THEN {"typed", "click_error", "type_error"}
    ELSE {"click_error"}

ClickNotConnected ==
    "Error: Browser not connected. Use the browser manager to connect first."

ClickNotInCache(element_selector) ==
    "Error: Element with selector " \o element_selector
        \o " not found. Use 'get_interactive_elements' first to get the list of elements."

ClickNotOnPage(selector) ==
    "Error: Element with selector '" \o selector
        \o "' not found on the page. The page may have changed."

\* element_info has no 'type' and no 'label' in this universe
ClickSuccess(element_info) ==
    "Successfully clicked: None '" \o element_info.contents \o "'"

ClickException == "Error clicking element: <exception>"

InputNotConnected == "Error: Browser not connected."

InputNotInCache(element_selector) ==
    "Error: Element ID " \o element_selector
        \o " not found. Use 'get_interactive_elements' first."

InputNotOnPage == "Error: Element not found on the page."

InputSuccess == "Successfully typed text into: element"

InputException == "Error typing text: <exception>"

\* the value a tool call leaves in out; typed is the text typed, or None
ToolOut(tool, p, element_selector, msg, clicked, typed) ==
    [done |-> TRUE, tool |-> tool, page |-> p, selector |-> element_selector,
     msg |-> msg, clicked |-> clicked, typed |-> typed]

InitTools ==
    /\ \E D \in SUBSET URLS :
          cache_mapping \in
              [D -> {[PageCache EXCEPT !.interactive_cache = m] :
                        m \in InteractiveMaps}]
    /\ last = NoCall
    /\ nops = 0
    /\ attributes = [id |-> None, name |-> None]
    /\ element = "detached"
    /\ results = <<>>
    /\ tree = NoTree
    /\ page = NoPage
    /\ out = NoOut
    /\ \/ current_page = NoCurrentPage
       \/ \E url \in URLS : \E live \in SUBSET Selectors :
             current_page = PageOf(url, live)
    /\ heap = NoHeap
    /\ held = NoHeld

\* ClickElementTool._run(element_selector)
ClickElement(element_selector) ==
    /\ ~out.done
    /\ LET p == current_page
           m == GetElementsCache
       IN IF ~p.connected
          THEN /\ out' = ToolOut("click_element", p, element_selector,
                                 ClickNotConnected, FALSE, None)
               /\ UNCHANGED current_page
          ELSE IF NotInCache(m, p.url, element_selector)
          THEN /\ out' = ToolOut("click_element", p, element_selector,
                                 ClickNotInCache(element_selector), FALSE, None)
               /\ UNCHANGED current_page
          ELSE LET element_info == m[p.url].interactive_cache[element_selector]
                   selector == element_info.selector
               IN IF FirstCount(p, selector) = 0
                  THEN /\ out' = ToolOut("click_element", p, element_selector,
                                         ClickNotOnPage(selector), FALSE, None)
                       /\ UNCHANGED current_page
                  ELSE \E visible \in BOOLEAN : \E scrolled \in BOOLEAN :
                       \E outcome \in ClickOutcomes(p, selector) :
                       \E popup_url \in URLS :
                       \E popup_live \in SUBSET Selectors :
                          IF (~visible /\ ~scrolled) \/ outcome = "error"
                          THEN /\ out' = ToolOut("click_element", p,
                                                 element_selector,
                                                 ClickException, FALSE, None)
                               /\ UNCHANGED current_page
                          ELSE /\ out' = ToolOut("click_element", p,
                                                 element_selector,
                                                 ClickSuccess(element_info),
                                                 outcome # "timeout", None)
                               /\ current_page' =
                                     IF outcome = "popup"
                                     THEN PageOf(popup_url, popup_live)
                                     ELSE current_page
    /\ UNCHANGED <<tree, page, attributes, element, results,
                   cache_mapping, last, nops, heap, held>>

\* InputTextTool._run(element_selector, text)
InputText(element_selector, text) ==
    /\ ~out.done
    /\ LET p == current_page
           m == GetElementsCache
       IN IF ~p.connected
          THEN out' = ToolOut("input_text", p, element_selector,
                              InputNotConnected, FALSE, None)
          ELSE IF NotInCache(m, p.url, element_selector)
          THEN out' = ToolOut("input_text", p, element_selector,
                              InputNotInCache(element_selector), FALSE, None)
          ELSE LET element_info == m[p.url].interactive_cache[element_selector]
                   selector == element_info.selector
               IN IF FirstCount(p, selector) = 0
                  THEN out' = ToolOut("input_text", p, element_selector,
                                      InputNotOnPage, FALSE, None)
                  ELSE \E visible \in BOOLEAN : \E scrolled \in BOOLEAN :
                       \E outcome \in TypeOutcomes(p, selector) :
                          IF (~visible /\ ~scrolled) \/ outcome = "click_error"
                          THEN out' = ToolOut("input_text", p, element_selector,
                                              InputException, FALSE, None)
                          ELSE IF outcome = "type_error"
                          THEN out' = ToolOut("input_text", p, element_selector,
                                              InputException, TRUE, None)
                          ELSE out' = ToolOut("input_text", p, element_selector,
                                              InputSuccess, TRUE, text)
    /\ UNCHANGED <<tree, page, attributes, element, results,
                   cache_mapping, last, nops, current_page, heap, held>>

NextTools ==
    \/ \E element_selector \in SelectorArgs : ClickElement(element_selector)
    \/ \E element_selector \in SelectorArgs : \E text \in Texts :
          InputText(element_selector, text)

SpecTools == InitTools /\ [][NextTools]_vars

(***************************************************************************)
(* Properties of the two tools (specification SpecTools)                   *)
(***************************************************************************)
\* a call ran on a connected page
Called == out.done /\ out.page.connected

\* the selector given is not a key of the interactive cache of the page's
\* url, or the url has no cache
CalledUncached ==
    /\ Called
    /\ \/ out.page.url \notin DOMAIN cache_mapping
       \/ out.selector \notin DOMAIN cache_mapping[out.page.url].interactive_cache

\* the selector given is cached and matches no element of the page
CalledStale ==
    /\ Called
    /\ ~CalledUncached
    /\ cache_mapping[out.page.url].interactive_cache[out.selector].selector
           \notin out.page.live

NotCachedErrors ==
    {ClickNotInCache(s) : s \in SelectorArgs}
        \cup {InputNotInCache(s) : s \in SelectorArgs}

NotOnPageErrors ==
    {ClickNotOnPage(s) : s \in SelectorArgs} \cup {InputNotOnPage}

NothingDone ==
    /\ ~out.clicked
    /\ out.typed = None
    /\ current_page = out.page

\* C25: click_element and input_text do nothing on the page and return the
\* not-cached error when the selector is not in the interactive cache of the
\* current page's url or the url has no cache, and do nothing and return
\* the different not-found-on-the-page error when the cached selector
\* matches no live element.
C25_StaleTargets ==
    /\ CalledUncached =>
          /\ NothingDone
          /\ out.msg \in NotCachedErrors
          /\ out.msg \notin NotOnPageErrors
    /\ CalledStale =>
          /\ NothingDone
          /\ out.msg \in NotOnPageErrors
          /\ out.msg \notin NotCachedErrors

\* click_element was called with a cached selector whose element has left
\* the page
C25_Witness ==
    /\ CalledStale
    /\ out.tool = "click_element"
    /\ out.page.live # {}
    /\ out.msg = ClickNotOnPage(out.selector)

(***************************************************************************)
(* The cache manager with its baseline dicts as objects (SpecRefs)         *)
(*                                                                         *)
(* heap[i] is the contents of dict object i.  In this specification the    *)
(* fields interactive_cache and informative_cache of a record hold the     *)
(* number of the dict object they refer to; the two buckets are kept by    *)
(* value.  A caller hands a dict it has just built.  held is the set of    *)
(* dict objects a caller still has a reference to, each with the contents  *)
(* it had when it was handed to set_interactive_cache or returned by       *)
(* get_cache.                                                              *)
(***************************************************************************)
\* PageCache(): the default factories build a new dict for every field
NewPageCache(h) ==
    [heap |-> h \o <<EmptyMap, EmptyMap>>,
     record |-> [interactive_cache |-> Len(h) + 1,
                 informative_cache |-> Len(h) + 2,
                 info_updates |-> EmptyMap,
                 interactive_updates |-> EmptyMap]]

\* if self._cache_mapping.get(page_url, None) is None:
\*     self._cache_mapping[page_url] = PageCache()
EnsureRecordRef(m, h, u) ==
    IF HasRecord(m, u) THEN [mapping |-> m, heap |-> h]
    ELSE LET n == NewPageCache(h)
         IN [mapping |-> [x \in DOMAIN m \cup {u} |->
                             IF x = u THEN n.record ELSE m[x]],
             heap |-> n.heap]

InitRefs ==
    /\ cache_mapping = [u \in {} |-> PageCache]
    /\ last = NoCall
    /\ nops = 0
    /\ attributes = [id |-> None, name |-> None]
    /\ element = "detached"
    /\ results = <<>>
    /\ tree = NoTree
    /\ page = NoPage
    /\ out = NoOut
    /\ current_page = NoCurrentPage
    /\ heap = NoHeap
    /\ held = NoHeld

\* get_cache: the dict of the record itself is returned
GetCacheRef(u) ==
    /\ Step
    /\ held' = IF HasRecord(cache_mapping, u)
               THEN held \cup
                       {[obj |-> cache_mapping[u].interactive_cache,
                         was |-> heap[cache_mapping[u].interactive_cache]]}
               ELSE held
    /\ UNCHANGED <<cache_mapping, heap, last, current_page>>
    /\ UNCHANGED <<attributes, element, results, tree, page, out>>

\* set_interactive_cache: the record refers to the caller's dict
SetInteractiveCacheRef(u, interactive_cache) ==
    /\ Step
    /\ LET r == EnsureRecordRef(cache_mapping, heap, u)
           obj == Len(r.heap) + 1
       IN /\ heap' = Append(r.heap, interactive_cache)
          /\ cache_mapping' =
                [r.mapping EXCEPT ![u].interactive_updates = EmptyMap,
                                  ![u].interactive_cache = obj]
          /\ held' = held \cup {[obj |-> obj, was |-> interactive_cache]}
    /\ UNCHANGED <<last, current_page>>
    /\ UNCHANGED <<attributes, element, results, tree, page, out>>

\* set_informative_cache: del_info_updates raises before the assignment
SetInformativeCacheRef(u, informative_cache) ==
    /\ Step
    /\ DelInfoUpdatesRaises
    /\ LET r == EnsureRecordRef(cache_mapping, heap, u)
       IN heap' = r.heap /\ cache_mapping' = r.mapping
    /\ UNCHANGED <<held, last, current_page>>
    /\ UNCHANGED <<attributes, element, results, tree, page, out>>

\* clear_interactive_cache: .clear() on the dict of the record, or on the
\* dict of a PageCache() built for the call
ClearInteractiveCacheRef(u) ==
    /\ Step
    /\ heap' = IF HasRecord(cache_mapping, u)
               THEN [heap EXCEPT ![cache_mapping[u].interactive_cache] = EmptyMap]
               ELSE heap
    /\ UNCHANGED <<cache_mapping, held, last, current_page>>
    /\ UNCHANGED <<attributes, element, results, tree, page, out>>

\* clear_informative_cache
ClearInformativeCacheRef(u) ==
    /\ Step
    /\ heap' = IF HasRecord(cache_mapping, u)
               THEN [heap EXCEPT ![cache_mapping[u].informative_cache] = EmptyMap]
               ELSE heap
    /\ UNCHANGED <<cache_mapping, held, last, current_page>>
    /\ UNCHANGED <<attributes, element, results, tree, page, out>>

\* PageCache.clear_cache called on the record the manager holds for u
ClearCacheRef(u) ==
    /\ Step
    /\ HasRecord(cache_mapping, u)
    /\ heap' = [heap EXCEPT ![cache_mapping[u].interactive_cache] = EmptyMap]
    /\ UNCHANGED <<cache_mapping, held, last, current_page>>
    /\ UNCHANGED <<attributes, element, results, tree, page, out>>

\* track_dom_changes: a side that differs is made to refer to the snapshot
\* dict, which the call has built itself
TrackDomChangesRef(u, info_cache, inter_cache) ==
    /\ Step
    /\ LET r == EnsureRecordRef(cache_mapping, heap, u)
           rec == r.mapping[u]
           delta_info == Delta(info_cache, r.heap[rec.informative_cache])
           delta_inter == Delta(inter_cache, r.heap[rec.interactive_cache])
           h1 == IF delta_info # {} THEN Append(r.heap, info_cache) ELSE r.heap
           h2 == IF delta_inter # {} THEN Append(h1, inter_cache) ELSE h1
       IN /\ heap' = h2
          /\ cache_mapping' =
                [r.mapping EXCEPT
                    ![u] = [informative_cache |->
                                IF delta_info # {} THEN Len(h1)
                                ELSE rec.informative_cache,
                            info_updates |-> PutAll(rec.info_updates, delta_info),
                            interactive_cache |->
                                IF delta_inter # {} THEN Len(h2)
                                ELSE rec.interactive_cache,
                            interactive_updates |->
                                PutAll(rec.interactive_updates, delta_inter)]]
    /\ UNCHANGED <<held, last, current_page>>
    /\ UNCHANGED <<attributes, element, results, tree, page, out>>

NextRefs ==
    \/ \E u \in URLS : GetCacheRef(u)
    \/ \E u \in URLS : \E m \in InteractiveMaps : SetInteractiveCacheRef(u, m)
    \/ \E u \in URLS : \E m \in InformativeMaps : SetInformativeCacheRef(u, m)
    \/ \E u \in URLS : ClearInteractiveCacheRef(u)
    \/ \E u \in URLS : ClearInformativeCacheRef(u)
    \/ \E u \in URLS : ClearCacheRef(u)
    \/ \E u \in URLS : \E info_cache \in InformativeMaps :
          \E inter_cache \in InteractiveMaps :
             TrackDomChangesRef(u, info_cache, inter_cache)

SpecRefs == InitRefs /\ [][NextRefs]_vars

\* C29: a map handed to set_interactive_cache or set_informative_cache and
\* installed, or returned by get_cache, keeps the contents it had then
\* across every later operation of the cache.
C29_NoInPlaceMutation ==
    \A h \in held : heap[h.obj] = h.was

====
